---- MODULE Spec2Model ----
(***************************************************************************)
(* rust-warc: the record parser WarcRecord::parse and the streaming reader *)
(* WarcReader of src/src/lib.rs, modelled at the level of the bytes of the *)
(* underlying BufRead source.                                              *)
(*                                                                         *)
(* A byte is a one-character string; the string "FF" stands for the single *)
(* byte 0xFF, which is never part of valid UTF-8.  A byte string is a      *)
(* sequence of bytes.                                                      *)
(***************************************************************************)
EXTENDS Integers, Sequences, FiniteSets, TLC

VARIABLES
    data,         \* the bytes of the underlying source, first to last
    pos,          \* read position of the source: bytes consumed from it
    sum,          \* WarcReader.sum, the byte accumulator
    valid_state,  \* WarcReader.valid_state
    out,          \* what the pulls returned so far, oldest first
    layout        \* how data was put together: its segments, first to last

vars == <<data, pos, sum, valid_state, out, layout>>

----------------------------------------------------------------------------
(* Bytes and text helpers of the standard library, as the parser uses them *)

BAD == "FF"

\* char::is_whitespace, restricted to the bytes of the model's alphabet
IsWhitespace(c) == c \in {" ", "\t", "\r", "\n"}

UpperLetters ==
    <<"A","B","C","D","E","F","G","H","I","J","K","L","M",
      "N","O","P","Q","R","S","T","U","V","W","X","Y","Z">>

LowerLetters ==
    <<"a","b","c","d","e","f","g","h","i","j","k","l","m",
      "n","o","p","q","r","s","t","u","v","w","x","y","z">>

\* the lowercase letter of each uppercase letter
LowerOf ==
    [c \in {UpperLetters[i] : i \in DOMAIN UpperLetters} |->
        LowerLetters[CHOOSE i \in DOMAIN UpperLetters : UpperLetters[i] = c]]

\* u8::to_ascii_lowercase
ToAsciiLowerByte(c) == IF c \in DOMAIN LowerOf THEN LowerOf[c] ELSE c

\* str::to_ascii_lowercase / String::make_ascii_lowercase
ToAsciiLowercase(s) == [i \in DOMAIN s |-> ToAsciiLowerByte(s[i])]

\* str::trim_end: the length of s without its trailing whitespace
RECURSIVE TrimEndLen(_, _)
TrimEndLen(s, n) ==
    IF n = 0 THEN 0
    ELSE IF IsWhitespace(s[n]) THEN TrimEndLen(s, n - 1)
    ELSE n

\* fn rtrim: s.truncate(s.trim_end().len())
rtrim(s) == SubSeq(s, 1, TrimEndLen(s, Len(s)))

\* the number of leading whitespace bytes of s, counted from index i
RECURSIVE TrimStartFrom(_, _)
TrimStartFrom(s, i) ==
    IF i > Len(s) THEN Len(s) + 1
    ELSE IF IsWhitespace(s[i]) THEN TrimStartFrom(s, i + 1)
    ELSE i

\* str::trim: both ends
Trim(s) ==
    LET e == TrimEndLen(s, Len(s))
        b == TrimStartFrom(s, 1)
    IN  IF b > e THEN <<>> ELSE SubSeq(s, b, e)

\* str::starts_with
StartsWith(s, p) == Len(s) >= Len(p) /\ SubSeq(s, 1, Len(p)) = p

\* str::find(':'): index (1-based) of the first colon, 0 when there is none
FindColon(s) ==
    IF \E i \in DOMAIN s : s[i] = ":"
    THEN CHOOSE i \in DOMAIN s : s[i] = ":" /\ \A j \in 1..(i - 1) : s[j] # ":"
    ELSE 0

Digits == <<"0","1","2","3","4","5","6","7","8","9">>

IsDigit(c) == \E i \in DOMAIN Digits : Digits[i] = c

DigitVal(c) == (CHOOSE i \in DOMAIN Digits : Digits[i] = c) - 1

RECURSIVE DecimalValue(_, _)
DecimalValue(s, n) ==
    IF n = 0 THEN 0 ELSE DecimalValue(s, n - 1) * 10 + DigitVal(s[n])

\* str::parse::<usize>: an optional '+', then one or more decimal digits.
\* (Values beyond usize::MAX are an error in Rust; the inputs of the model
\* stay far below it.)
ParseUsize(s) ==
    LET body == IF Len(s) > 0 /\ s[1] = "+" THEN Tail(s) ELSE s
    IN  IF Len(body) > 0 /\ \A i \in DOMAIN body : IsDigit(body[i])
        THEN [ok |-> TRUE, val |-> DecimalValue(body, Len(body))]
        ELSE [ok |-> FALSE, val |-> 0]

----------------------------------------------------------------------------
(* The BufRead source                                                      *)

\* index of the first LF at or after index i, or Len(d) when there is none
RECURSIVE LineEnd(_, _)
LineEnd(d, i) ==
    IF i >= Len(d) THEN Len(d)
    ELSE IF d[i] = "\n" THEN i
    ELSE LineEnd(d, i + 1)

\* BufRead::read_line at position p: the bytes up to and including the next
\* LF (or up to the end of input) are consumed; they are appended to the
\* buffer and counted if they are valid UTF-8, otherwise the call is an error
\* and the buffer stays empty.
ReadLine(d, p) ==
    LET e    == IF p >= Len(d) THEN p ELSE LineEnd(d, p + 1)
        line == SubSeq(d, p + 1, e)
    IN  IF \E i \in DOMAIN line : line[i] = BAD
        THEN [ok |-> FALSE, n |-> 0, line |-> <<>>, pos |-> e]
        ELSE [ok |-> TRUE, n |-> e - p, line |-> line, pos |-> e]

\* Read::read_exact of n bytes at position p.  On a short read the number of
\* bytes consumed is unspecified: drain tells whether the implementation
\* consumed what was left (BufReader, Cursor, current slices) or nothing.
ReadExact(d, p, n, drain) ==
    IF Len(d) - p >= n
    THEN [ok |-> TRUE, bytes |-> SubSeq(d, p + 1, p + n), pos |-> p + n]
    ELSE [ok |-> FALSE, bytes |-> <<>>, pos |-> IF drain THEN Len(d) ELSE p]

----------------------------------------------------------------------------
(* CaseString and the header map                                           *)

\* mutant of CaseStringFrom: the text is kept as written
CaseStringFromVerbatim(s) == [inner |-> s]

\* impl From<String> for CaseString: the text is lowercased, only the
\* lowercased text is kept
CaseStringFrom(s) == [inner |-> ToAsciiLowercase(s)]

\* #[derive(PartialEq)] on CaseString: equality of the inner texts
CaseStringEq(a, b) == a.inner = b.inner

\* impl PartialEq<String> for CaseString
CaseStringEqString(a, other) == a.inner = ToAsciiLowercase(other)

\* HashMap::<CaseString, String>::with_capacity(16): no entry
EmptyHeader == [k \in {} |-> <<>>]

\* mutant of HeaderInsert: an entry that is there is kept
HeaderInsertKeepsFirst(h, key, value) ==
    [k \in (DOMAIN h) \cup {key} |-> IF k \in DOMAIN h THEN h[k] ELSE value]

\* HashMap::insert: the entry of an equal key is overwritten
HeaderInsert(h, key, value) ==
    [k \in (DOMAIN h) \cup {key} |-> IF CaseStringEq(k, key) THEN value ELSE h[k]]

\* HashMap::get: Option<&String>
HeaderGet(h, key) ==
    IF \E k \in DOMAIN h : CaseStringEq(k, key)
    THEN [some |-> TRUE, val |-> h[CHOOSE k \in DOMAIN h : CaseStringEq(k, key)]]
    ELSE [some |-> FALSE, val |-> <<>>]

----------------------------------------------------------------------------
(* WarcRecord::parse                                                       *)

CRLF == <<"\r", "\n">>

\* mutant of VersionPrefix: any WARC version is taken
VersionPrefixAnyWarc == <<"W", "A", "R", "C", "/">>

VersionPrefix == <<"W", "A", "R", "C", "/", "1", ".">>

ContentLengthKey ==
    <<"C","o","n","t","e","n","t","-","L","e","n","g","t","h">>

LineFeed == <<"\r", "\n", "\r", "\n">>

\* let mut linefeed = [0u8; 4]
TrailerLen == 4

\* mutant of CountTrailer: the trailer is read but not counted
CountTrailerForgotten(s) == s

\* mutant of CountTrailer: the trailer is counted twice
CountTrailerTwice(s) == s + TrailerLen + TrailerLen

\* *sum = *sum + 4, after the trailer was read
CountTrailer(s) == s + TrailerLen

\* mutant of IsLineFeed: only the first CR LF is compared
IsLineFeedFirstPair(bytes) == SubSeq(bytes, 1, 2) = CRLF

\* linefeed != [13, 10, 13, 10], negated
IsLineFeed(bytes) == bytes = LineFeed

\* Option<(CaseString, String)>
NoContinuation == [some |-> FALSE, key |-> CaseStringFrom(<<>>), val |-> <<>>]

SomeContinuation(key, val) == [some |-> TRUE, key |-> key, val |-> val]

\* what parse returns, with the accumulator and the read position it leaves
Failure(tag, msg, s, p) ==
    [tag |-> tag, msg |-> msg, version |-> <<>>, header |-> EmptyHeader,
     content |-> <<>>, sum |-> s, pos |-> p]

Success(version, header, content, s, p) ==
    [tag |-> "Ok", msg |-> "", version |-> version, header |-> header,
     content |-> content, sum |-> s, pos |-> p]

\* the rollback of the header-stage failures: *sum - version_len - headers_len
RollbackHeaders(s, version_len, headers_len) == s - version_len - headers_len

\* mutant of RollbackTrailer: the 4 bytes of the trailer are subtracted as
\* well, whether they were counted or not
RollbackTrailerAndTrailer(s, version_len, headers_len, content_len) ==
    s - version_len - headers_len - content_len - TrailerLen

\* the rollback of the trailer failures:
\* *sum - version_len - headers_len - content_len
RollbackTrailer(s, version_len, headers_len, content_len) ==
    s - version_len - headers_len - content_len

\* the header loop (lines 164-210).  st holds the locals: pos, sum,
\* headers_len, header, continuation.  It ends in a Failure or in a record
\* tagged "Break" that carries the locals on to the rest of parse.
RECURSIVE HeaderLoop(_, _, _)
HeaderLoop(d, st, version_len) ==
    LET r == ReadLine(d, st.pos) IN
    IF ~r.ok
    THEN Failure("IO", "InvalidData",
                 RollbackHeaders(st.sum, version_len, st.headers_len), r.pos)
    ELSE
    LET sum1 == st.sum + r.n
        hl1  == st.headers_len + r.n
    IN
    IF r.line = CRLF
    THEN [tag |-> "Break", pos |-> r.pos, sum |-> sum1, headers_len |-> hl1,
          header |-> st.header, continuation |-> st.continuation]
    ELSE
    LET line_buf == rtrim(r.line) IN
    IF StartsWith(line_buf, <<" ">>) \/ StartsWith(line_buf, <<"\t">>)
    THEN IF st.continuation.some
         THEN HeaderLoop(d,
                [pos |-> r.pos, sum |-> sum1, headers_len |-> hl1,
                 header |-> st.header,
                 continuation |->
                    SomeContinuation(st.continuation.key,
                        st.continuation.val \o <<"\n">> \o Trim(line_buf))],
                version_len)
         ELSE Failure("Malformed", "Invalid header block",
                      RollbackHeaders(sum1, version_len, hl1), r.pos)
    ELSE
    LET header1 == IF st.continuation.some
                   THEN HeaderInsert(st.header, st.continuation.key,
                                     st.continuation.val)
                   ELSE st.header
        semi    == FindColon(line_buf)
    IN
    IF semi > 0
    THEN LET value == Trim(SubSeq(line_buf, semi + 1, Len(line_buf)))
             name  == rtrim(SubSeq(line_buf, 1, semi - 1))
         IN  HeaderLoop(d,
                [pos |-> r.pos, sum |-> sum1, headers_len |-> hl1,
                 header |-> header1,
                 continuation |-> SomeContinuation(CaseStringFrom(name), value)],
                version_len)
    ELSE Failure("Malformed", "Invalid header field",
                 RollbackHeaders(sum1, version_len, hl1), r.pos)

\* mutant of ParseContentLength: text that is no number counts as 0
ParseContentLengthOrZero(text) ==
    IF ParseUsize(text).ok THEN ParseUsize(text) ELSE [ok |-> TRUE, val |-> 0]

\* content_len.unwrap().parse::<usize>() (line 226)
ParseContentLength(text) == ParseUsize(text)

\* mutant of ContentShortRead: the short read is taken for the end of input
ContentShortReadAsEof(s, version_len, headers_len, p) ==
    Failure("EOF", "", RollbackHeaders(s, version_len, headers_len), p)

\* the short read of the content block (lines 238-242)
ContentShortRead(s, version_len, headers_len, p) ==
    Failure("IO", "UnexpectedEof",
            RollbackHeaders(s, version_len, headers_len), p)

\* lines 212-271: after the blank line
ParseBody(d, version, version_len, hb, drain) ==
    LET header == IF hb.continuation.some
                  THEN HeaderInsert(hb.header, hb.continuation.key,
                                    hb.continuation.val)
                  ELSE hb.header
        headers_len == hb.headers_len
        got == HeaderGet(header, CaseStringFrom(ContentLengthKey))
    IN
    IF ~got.some
    THEN Failure("Malformed", "Content-Length is missing",
                 RollbackHeaders(hb.sum, version_len, headers_len), hb.pos)
    ELSE
    LET parsed == ParseContentLength(got.val) IN
    IF ~parsed.ok
    THEN Failure("Malformed", "Content-Length is not a number",
                 RollbackHeaders(hb.sum, version_len, headers_len), hb.pos)
    ELSE
    LET content_len == parsed.val
        c == ReadExact(d, hb.pos, content_len, drain)
    IN
    IF ~c.ok
    THEN ContentShortRead(hb.sum, version_len, headers_len, c.pos)
    ELSE
    LET sum2 == hb.sum + content_len
        t    == ReadExact(d, c.pos, TrailerLen, drain)
    IN
    IF ~t.ok
    THEN Failure("IO", "UnexpectedEof",
                 RollbackTrailer(sum2, version_len, headers_len, content_len),
                 t.pos)
    ELSE
    LET sum3 == CountTrailer(sum2) IN
    IF ~IsLineFeed(t.bytes)
    THEN Failure("Malformed", "No double linefeed after record content",
                 RollbackTrailer(sum3, version_len, headers_len, content_len),
                 t.pos)
    ELSE Success(version, header, c.bytes, sum3, t.pos)

\* WarcRecord::parse(read, sum), the source being d read from position p
Parse(d, p, s, drain) ==
    LET v == ReadLine(d, p) IN
    IF ~v.ok
    THEN Failure("IO", "InvalidData", s, v.pos)
    ELSE
    LET sum1 == s + v.n
        version_len == v.n
    IN
    IF v.line = <<>>
    THEN Failure("EOF", "", sum1, v.pos)
    ELSE
    LET version == rtrim(v.line) IN
    IF ~StartsWith(version, VersionPrefix)
    THEN Failure("Malformed", "Unknown WARC version", sum1 - version_len, v.pos)
    ELSE
    LET hb == HeaderLoop(d,
                [pos |-> v.pos, sum |-> sum1, headers_len |-> 0,
                 header |-> EmptyHeader, continuation |-> NoContinuation],
                version_len)
    IN  IF hb.tag # "Break" THEN hb
        ELSE ParseBody(d, version, version_len, hb, drain)

----------------------------------------------------------------------------
(* The sources the reader is run on                                        *)

MaxBytes == 84      \* a source holds at most this many bytes
MaxSegments == 3    \* ... made of at most this many segments
MaxPulls == 4       \* pulls on one reader

Version10 == <<"W","A","R","C","/","1",".","0">>

Version11 == <<"W","A","R","C","/","1",".","1">>

NameContentLength == <<"C","o","n","t","e","n","t","-","L","e","n","g","t","h">>

NameContentLengthUpper == <<"C","O","N","T","E","N","T","-","L","E","N","G","T","H">>

NameContentLengthLower == <<"c","o","n","t","e","n","t","-","l","e","n","g","t","h">>

FieldXa == <<"X",":"," ","a","\r","\n">>

FieldLowerXd == <<"x",":","d","\r","\n">>

ContinuationB == <<" ","b","\r","\n">>

ContinuationTabC == <<"\t","c"," ","\r","\n">>

ContinuationBlank == <<" ","\r","\n">>

LineNoColon == <<"X","\r","\n">>

LineBadUtf8 == <<"X",":"," ","FF","\r","\n">>

FieldLengthAbc == NameContentLength \o <<":"," ","a","b","c","\r","\n">>

FieldLengthMinus == NameContentLength \o <<":"," ","-","1","\r","\n">>

FieldLengthPlus == NameContentLength \o <<":"," ","+","1","\r","\n">>

FieldLengthOne == NameContentLength \o <<":"," ","1","\r","\n">>

FieldLengthZero == NameContentLength \o <<":"," ","0","\r","\n">>

FieldLengthZeroLf == NameContentLength \o <<":"," ","0","\n">>

VersionHttp == <<"H","T","T","P","\r","\n">>

WrongTrailer == <<"\r","\n","\n","\n">>

ContinuationOnlyBlank == <<"\t"," ","\r","\n">>

\* n in decimal
RECURSIVE Decimal(_)
Decimal(n) ==
    IF n < 10 THEN <<Digits[n + 1]>>
    ELSE Decimal(n \div 10) \o <<Digits[(n % 10) + 1]>>

\* The wire format of a record up to its content: version line, field lines,
\* the Content-Length field (its name spelt clName, its value n), more field
\* lines, blank line.
WireHead(version, before, clName, after, n) ==
    version \o CRLF
    \o before
    \o clName \o <<":", " ">> \o Decimal(n) \o CRLF
    \o after
    \o CRLF

\* A segment of a source: head \o tail, and what these bytes are.
\*   class "well_formed": a record in the wire format, every continuation
\*                        line carrying text; head is the record up to the
\*                        blank line, tail its content and trailer;
\*   class "corrupt":     bytes that break the format at a place named by why;
\*   class "other":       bytes off the format in a way the statements about
\*                        well-formed and corrupt records are silent about.
\* clen is the Content-Length the head declares (0 when it declares none) and
\* fields the fields the head writes, in order, as <<name, value>>, a
\* continuation line adding a newline and its trimmed text to the value.
Segment(head, tail, class, why, clen, fields) ==
    [bytes |-> head \o tail, body |-> Len(head), class |-> class, why |-> why,
     clen |-> clen, fields |-> fields]

WellFormed(version, before, clName, after, content, fields) ==
    Segment(WireHead(version, before, clName, after, Len(content)),
            content \o LineFeed, "well_formed", "", Len(content), fields)

TextA == <<"a">>

TextAB == <<"a", "\n", "b">>

TextDCB == <<"d", "\n", "c", "\n", "b">>

WellFormedSegments ==
    << WellFormed(Version10, <<>>, NameContentLength, <<>>, <<"t", "e">>,
                 << <<NameContentLength, Decimal(2)>> >>),
      WellFormed(Version11, FieldXa \o ContinuationB, NameContentLengthUpper,
                 <<>>, <<>>,
                 << <<<<"X">>, TextAB>>, <<NameContentLengthUpper, Decimal(0)>> >>),
      WellFormed(Version10, FieldXa, NameContentLengthLower,
                 FieldLowerXd \o ContinuationTabC \o ContinuationB,
                 <<"t", "\n">>,
                 << <<<<"X">>, TextA>>, <<NameContentLengthLower, Decimal(2)>>,
                    <<<<"x">>, TextDCB>> >>) >>

Corrupt(head, tail, why, clen) == Segment(head, tail, "corrupt", why, clen, <<>>)

CorruptSegments ==
    << Corrupt(VersionHttp, <<>>, "version", 0),
      Corrupt(<<BAD, "\r", "\n">>, <<>>, "version_utf8", 0),
      Corrupt(Version10 \o CRLF \o ContinuationB, <<>>, "no_pending", 0),
      Corrupt(Version10 \o CRLF \o FieldXa \o LineNoColon, <<>>, "no_colon", 0),
      Corrupt(Version10 \o CRLF \o LineBadUtf8, <<>>, "header_utf8", 0),
      Corrupt(Version10 \o CRLF \o FieldXa \o CRLF, LineFeed, "no_length", 0),
      Corrupt(Version10 \o CRLF \o FieldLengthAbc \o CRLF, LineFeed,
              "length_nan", 0),
      Corrupt(Version10 \o CRLF \o FieldLengthMinus \o CRLF,
              <<"t">> \o LineFeed, "length_nan", 0),
      Corrupt(Version10 \o CRLF \o FieldLengthOne \o CRLF,
              <<"t">> \o WrongTrailer, "trailer", 1),
      Corrupt(Version10 \o CRLF \o FieldLengthZero \o CRLF,
              <<"t">> \o LineFeed, "trailer", 0) >>

OtherSegments ==
    << Segment(Version10 \o CRLF \o FieldXa \o ContinuationBlank
              \o FieldLengthZero \o CRLF, LineFeed, "other",
              "blank_continuation", 0,
              << <<<<"X">>, <<"a", "\n">>>>, <<NameContentLength, Decimal(0)>> >>),
      Segment(Version10 \o CRLF \o ContinuationOnlyBlank, <<>>, "other",
              "blank_no_pending", 0, <<>>),
      Segment(Version10 \o <<"\n">> \o FieldLengthZeroLf \o CRLF, LineFeed,
              "other", "lf_only", 0, <<>>),
      Segment(Version10 \o CRLF \o FieldLengthPlus \o CRLF,
              <<"t">> \o LineFeed, "other", "plus_sign", 1, <<>>),
      Segment(Version10 \o CRLF \o FieldLengthZero
              \o NameContentLengthLower \o <<":", " ", "2">> \o CRLF \o CRLF,
              <<"t", "e">> \o LineFeed, "other", "two_lengths", 2,
              << <<NameContentLength, Decimal(0)>>,
                 <<NameContentLengthLower, Decimal(2)>> >>) >>

Segments == WellFormedSegments \o CorruptSegments \o OtherSegments

\* How a source was put together: one entry per segment, seg its index in
\* Segments and len the number of its bytes the source holds (the source ends
\* inside the segment when len is less than the segment's length).
Placed(i, k) == [seg |-> i, len |-> k]

\* The layouts of the sources: whole segments one after the other, the last
\* one possibly cut.  What follows a segment that is not well-formed is one
\* whole segment, and nothing after it.  n is the number of bytes of lay.
RECURSIVE Layouts(_, _)
Layouts(n, lay) ==
    LET afterBad == Len(lay) >= 1
                    /\ Segments[lay[Len(lay)].seg].class # "well_formed"
        hasBad   == Len(lay) >= 2
                    /\ Segments[lay[Len(lay) - 1].seg].class # "well_formed"
    IN
    {lay}
    \cup
    (IF Len(lay) >= MaxSegments \/ hasBad
     THEN {}
     ELSE UNION {
            LET full == Len(Segments[i].bytes) IN
            (IF n + full <= MaxBytes
             THEN Layouts(n + full, Append(lay, Placed(i, full)))
             ELSE {})
            \cup
            (IF afterBad THEN {}
             ELSE { Append(lay, Placed(i, k)) :
                    k \in 1..((IF n + full <= MaxBytes THEN full
                               ELSE MaxBytes - n + 1) - 1) })
            : i \in DOMAIN Segments })

\* the bytes of a layout
RECURSIVE BytesOf(_)
BytesOf(lay) ==
    IF lay = <<>> THEN <<>>
    ELSE SubSeq(Segments[Head(lay).seg].bytes, 1, Head(lay).len)
         \o BytesOf(Tail(lay))

----------------------------------------------------------------------------
(* WarcReader                                                              *)

\* WarcReader::new(read)
Init ==
    /\ layout \in Layouts(0, <<>>)
    /\ data = BytesOf(layout)
    /\ pos = 0
    /\ sum = 0
    /\ valid_state = TRUE
    /\ out = <<>>

\* One pull as the caller sees it (item, tag, msg, version, header, content)
\* and as it went: whether parse was called and what it returned, the
\* accumulator and the read position before and after, and how many bytes
\* the source held.
Pulled(item, r, called) ==
    [item |-> item,
     tag |-> IF item = "Err" THEN r.tag ELSE "",
     msg |-> IF item = "Err" THEN r.msg ELSE "",
     version |-> IF item = "Record" THEN r.version ELSE <<>>,
     header |-> IF item = "Record" THEN r.header ELSE EmptyHeader,
     content |-> IF item = "Record" THEN r.content ELSE <<>>,
     called |-> called,
     parsed |-> IF called THEN r.tag ELSE "",
     sum0 |-> sum, pos0 |-> pos, sum1 |-> r.sum, pos1 |-> r.pos,
     end0 |-> Len(data)]

\* mutant of NextItem: errors end the sequence without being yielded
NextItemErrorsDropped(r) == IF r.tag = "Ok" THEN "Record" ELSE "None"

\* mutant of NextItem: no arm for WarcError::EOF
NextItemEofSurfaced(r) == IF r.tag = "Ok" THEN "Record" ELSE "Err"

\* the match of WarcReader::next on what parse returned: the item yielded
NextItem(r) ==
    IF r.tag = "Ok" THEN "Record"
    ELSE IF r.tag = "EOF" THEN "None"
    ELSE "Err"

\* mutant of NextValidState: a clean end of stream clears the flag too
NextValidStateEofClears(r) == r.tag = "Ok"

\* mutant of NextValidState: the flag is never cleared
NextValidStateKept(r) == TRUE

\* the valid_state the match leaves
NextValidState(r) == r.tag \in {"Ok", "EOF"}

\* mutant of WarcReaderNext: no test of valid_state, the parser is called on
\* every pull
WarcReaderNextUnguarded ==
    /\ Len(out) < MaxPulls
    /\ \E drain \in BOOLEAN :
         LET r == Parse(data, pos, sum, drain) IN
         /\ sum' = r.sum
         /\ pos' = r.pos
         /\ valid_state' = (valid_state /\ NextValidState(r))
         /\ out' = Append(out, Pulled(NextItem(r), r, TRUE))
    /\ UNCHANGED <<data, layout>>

\* impl Iterator for WarcReader: fn next
WarcReaderNext ==
    /\ Len(out) < MaxPulls
    /\ IF ~valid_state
       THEN /\ out' = Append(out, Pulled("None", Failure("", "", sum, pos), FALSE))
            /\ UNCHANGED <<pos, sum, valid_state>>
       ELSE \E drain \in BOOLEAN :
              LET r == Parse(data, pos, sum, drain) IN
              /\ sum' = r.sum
              /\ pos' = r.pos
              /\ valid_state' = NextValidState(r)
              /\ out' = Append(out, Pulled(NextItem(r), r, TRUE))
    /\ UNCHANGED <<data, layout>>

Next == WarcReaderNext

Spec == Init /\ [][Next]_vars

\* The source R is any BufRead, and a BufRead that reported end of input (a
\* read of 0 bytes) may supply bytes later: a file that is appended to, a
\* terminal, a socket.  Here one more whole segment arrives after the last
\* pull ended on end of input.
SourceGrows ==
    /\ out # <<>>
    /\ out[Len(out)].parsed = "EOF"
    /\ Len(layout) < MaxSegments
    /\ \E i \in DOMAIN Segments :
         /\ Len(data) + Len(Segments[i].bytes) <= MaxBytes
         /\ layout' = Append(layout, Placed(i, Len(Segments[i].bytes)))
         /\ data' = data \o Segments[i].bytes
    /\ UNCHANGED <<pos, sum, valid_state, out>>

NextGrow == WarcReaderNext \/ SourceGrows

\* the reader over a source that may grow after its end was reported
SpecGrow == Init /\ [][NextGrow]_vars

----------------------------------------------------------------------------
(* Reading the history of pulls against the layout of the source           *)

\* the segment of layout entry j, and whether the source holds all of it
SegmentOf(j) == Segments[layout[j].seg]

Whole(j) == layout[j].len = Len(SegmentOf(j).bytes)

\* the offset in data of the first byte of layout entry j
RECURSIVE SegStart(_)
SegStart(j) == IF j <= 1 THEN 0 ELSE SegStart(j - 1) + layout[j - 1].len

\* pull i called the parser with the source at the first byte of entry j
PullAt(i, j) == out[i].called /\ out[i].pos0 = SegStart(j)

\* entry j is a whole well-formed record
WellFormedAt(j) == SegmentOf(j).class = "well_formed" /\ Whole(j)

\* entry j is corrupt: a corrupt segment, or a well-formed record the source
\* ends in
CorruptAt(j) ==
    \/ SegmentOf(j).class = "corrupt"
    \/ SegmentOf(j).class = "well_formed" /\ ~Whole(j)

\* g's head is a complete header block that declares a numeric Content-Length
DeclaresLength(g) ==
    g.class = "well_formed" \/ g.why \in {"trailer", "plus_sign", "lf_only"}

\* the source holds the whole head of entry j
HeadComplete(j) == layout[j].len >= SegmentOf(j).body

\* the uppercase letter of each lowercase letter
UpperOf ==
    [c \in {LowerLetters[i] : i \in DOMAIN LowerLetters} |->
        UpperLetters[CHOOSE i \in DOMAIN LowerLetters : LowerLetters[i] = c]]

\* u8::to_ascii_uppercase, for spelling a name in another casing
ToAsciiUpperByte(c) == IF c \in DOMAIN UpperOf THEN UpperOf[c] ELSE c

\* some ASCII casings of a name: as written, lower, upper, alternating
Casings(name) ==
    { name,
      ToAsciiLowercase(name),
      [i \in DOMAIN name |-> ToAsciiUpperByte(name[i])],
      [i \in DOMAIN name |-> IF i % 2 = 1 THEN ToAsciiUpperByte(name[i])
                                          ELSE ToAsciiLowerByte(name[i])] }

\* field n of fs is the last one of its name, casing aside
LastOfItsName(fs, n) ==
    \A m \in DOMAIN fs :
        m > n => ToAsciiLowercase(fs[m][1]) # ToAsciiLowercase(fs[n][1])

\* the number of whole well-formed records the source starts with
RECURSIVE LeadingWellFormed(_)
LeadingWellFormed(j) ==
    IF j \in DOMAIN layout /\ WellFormedAt(j)
    THEN 1 + LeadingWellFormed(j + 1)
    ELSE 0

\* the sum of the on-wire lengths of the records the pulls of o yielded
RECURSIVE YieldedBytes(_)
YieldedBytes(o) ==
    IF o = <<>> THEN 0
    ELSE (IF Head(o).item = "Record" THEN Head(o).pos1 - Head(o).pos0 ELSE 0)
         + YieldedBytes(Tail(o))

----------------------------------------------------------------------------
(* The claims                                                              *)

\* C1: after every pull, whatever its outcome, reader.sum is exactly the sum
\* of the on-wire lengths of the records yielded so far (a record that fails
\* at any step leaves the accumulator where it was before its version line).
C1_AccumulatorIsYieldedBytes == sum = YieldedBytes(out)

\* C2: a pull that finds a well-formed record of on-wire length L at the
\* read position yields it, consumes exactly L bytes, adds exactly L to the
\* accumulator, and returns the Content-Length bytes of its content.
C2_WellFormedRecordParses ==
    \A i \in DOMAIN out : \A j \in DOMAIN layout :
        PullAt(i, j) /\ WellFormedAt(j) =>
            LET L == layout[j].len
                g == SegmentOf(j)
                declared == HeaderGet(out[i].header,
                                      CaseStringFrom(ContentLengthKey))
            IN  /\ out[i].item = "Record"
                /\ out[i].pos1 = out[i].pos0 + L
                /\ out[i].sum1 = out[i].sum0 + L
                /\ declared.some
                /\ ParseUsize(declared.val) = [ok |-> TRUE, val |-> g.clen]
                /\ Len(out[i].content) = g.clen
                /\ out[i].content
                     = SubSeq(data, out[i].pos0 + g.body + 1,
                                    out[i].pos0 + g.body + g.clen)

\* C2's case: the second of two well-formed records is parsed, with content
C2_Witness ==
    \E j \in DOMAIN layout :
        /\ 2 \in DOMAIN out
        /\ PullAt(2, j) /\ WellFormedAt(j)
        /\ out[2].sum0 > 0
        /\ out[2].content # <<>>

\* C3: once a pull has returned an error, every later pull returns None.
C3_PoisonOnError ==
    \A i \in DOMAIN out : \A k \in DOMAIN out :
        i < k /\ out[i].item = "Err" => out[k].item = "None"

\* C3's case: a pull returned None after an error although the bytes left in
\* the source are a valid record
C3_Witness ==
    /\ Len(out) >= 2
    /\ out[Len(out) - 1].item = "Err"
    /\ out[Len(out)].item = "None"
    /\ Parse(data, pos, sum, TRUE).tag = "Ok"

\* C4: over N well-formed records followed by a non-empty corrupt remainder,
\* the pulls yield the N records in stream order, then one error, then None.
C4_RecordsThenOneError ==
    LET N == LeadingWellFormed(1) IN
    (N + 1) \in DOMAIN layout /\ CorruptAt(N + 1) =>
        \A i \in DOMAIN out :
            /\ i <= N =>
                 /\ out[i].item = "Record"
                 /\ out[i].pos0 = SegStart(i)
                 /\ out[i].pos1 = SegStart(i + 1)
                 /\ out[i].content
                      = SubSeq(data, SegStart(i) + SegmentOf(i).body + 1,
                                     SegStart(i + 1) - TrailerLen)
            /\ i = N + 1 => out[i].item = "Err"
            /\ i > N + 1 => out[i].item = "None"

\* C4's case: two records, the error, and a further pull
C4_Witness ==
    /\ LeadingWellFormed(1) = 2
    /\ 3 \in DOMAIN layout /\ CorruptAt(3)
    /\ Len(out) = 4
    /\ out[3].item = "Err"
    /\ out[4].item = "None"

\* C5: when the version-line read returns zero bytes, parse returns EOF with
\* the accumulator unchanged and the pull returns None; no pull returns
\* Some(Err(EOF)).
C5_CleanEndIsNotAnError ==
    \A i \in DOMAIN out :
        /\ out[i].called /\ out[i].pos0 = Len(data) =>
             /\ out[i].parsed = "EOF"
             /\ out[i].item = "None"
             /\ out[i].sum1 = out[i].sum0
        /\ out[i].parsed = "EOF" =>
             /\ out[i].pos0 = Len(data)
             /\ out[i].item = "None"
             /\ out[i].sum1 = out[i].sum0
        /\ ~(out[i].item = "Err" /\ out[i].tag = "EOF")

\* C5's case: the source ends at a record boundary after a record was yielded
C5_Witness ==
    \E i \in DOMAIN out :
        out[i].parsed = "EOF" /\ out[i].sum0 > 0 /\ out[i].item = "None"

\* C6: when the source ends before Content-Length bytes of content are
\* there, the pull returns an IO error (not Malformed, not the clean end),
\* every later pull returns None, and a well-formed record before the
\* truncated one was yielded first.
C6_TruncatedContentIsIO ==
    \A i \in DOMAIN out : \A j \in DOMAIN layout :
        LET g == SegmentOf(j) IN
        /\ PullAt(i, j)
        /\ DeclaresLength(g)
        /\ HeadComplete(j)
        /\ layout[j].len - g.body < g.clen
        => /\ out[i].item = "Err"
           /\ out[i].tag = "IO"
           /\ out[i].parsed = "IO"
           /\ \A k \in DOMAIN out : k > i => out[k].item = "None"
           /\ \A k \in DOMAIN out :
                k < i /\ WellFormedAt(k) => out[k].item = "Record"

\* C6's case: one record, then a record cut inside its content, then a pull
C6_Witness ==
    /\ Len(layout) = 2 /\ WellFormedAt(1)
    /\ SegmentOf(2).class = "well_formed"
    /\ HeadComplete(2)
    /\ layout[2].len - SegmentOf(2).body < SegmentOf(2).clen
    /\ layout[2].len > SegmentOf(2).body
    /\ Len(out) = 3
    /\ out[1].item = "Record"
    /\ out[2].item = "Err" /\ out[2].tag = "IO"
    /\ out[3].item = "None"

\* C7: after the content block exactly 4 bytes are read: fewer than 4 left
\* is an IO error, 4 bytes other than CR LF CR LF are Malformed("No double
\* linefeed after record content"), and a record is returned only when they
\* are CR LF CR LF.
C7_TrailerValidation ==
    /\ \A i \in DOMAIN out : \A j \in DOMAIN layout :
        LET g     == SegmentOf(j)
            after == out[i].pos0 + g.body + g.clen
            four  == SubSeq(data, after + 1, after + 4)
        IN
        /\ PullAt(i, j)
        /\ DeclaresLength(g)
        /\ layout[j].len >= g.body + g.clen
        => /\ Len(data) - after < 4 =>
                out[i].item = "Err" /\ out[i].tag = "IO"
           /\ Len(data) - after >= 4 /\ four # LineFeed =>
                /\ out[i].item = "Err" /\ out[i].tag = "Malformed"
                /\ out[i].msg = "No double linefeed after record content"
                /\ out[i].pos1 = after + 4
           /\ Len(data) - after >= 4 /\ four = LineFeed =>
                /\ out[i].item = "Record"
                /\ out[i].pos1 = after + 4
    /\ \A i \in DOMAIN out :
        out[i].item = "Record" =>
            /\ out[i].pos1 - out[i].pos0 >= 4
            /\ SubSeq(data, out[i].pos1 - 3, out[i].pos1) = LineFeed

\* C7's case: after a first record, a record whose trailer is 4 wrong bytes
C7_Witness ==
    /\ Len(out) >= 2
    /\ out[1].item = "Record"
    /\ out[2].item = "Err"
    /\ out[2].msg = "No double linefeed after record content"
    /\ Len(data) >= out[2].pos1

\* C8: a header block without Content-Length fails with
\* Malformed("Content-Length is missing"), one whose Content-Length is not a
\* non-negative decimal integer with Malformed("Content-Length is not a
\* number"); in both cases no content byte is read.
C8_ContentLengthMandatory ==
    \A i \in DOMAIN out : \A j \in DOMAIN layout :
        LET g == SegmentOf(j) IN
        PullAt(i, j) /\ HeadComplete(j) =>
            /\ g.why = "no_length" =>
                 /\ out[i].item = "Err" /\ out[i].tag = "Malformed"
                 /\ out[i].msg = "Content-Length is missing"
                 /\ out[i].pos1 = out[i].pos0 + g.body
            /\ g.why = "length_nan" =>
                 /\ out[i].item = "Err" /\ out[i].tag = "Malformed"
                 /\ out[i].msg = "Content-Length is not a number"
                 /\ out[i].pos1 = out[i].pos0 + g.body

\* C8's case: both failures happen, with bytes left after the blank line
C8_Witness ==
    /\ Len(out) >= 2
    /\ out[1].item = "Record"
    /\ out[2].msg = "Content-Length is not a number"
    /\ Len(data) > out[2].pos1

\* the names whose CaseStrings are compared: casings of two names, and two
\* names that differ by more than their casing
ComparedNames ==
    Casings(NameContentLength) \cup Casings(<<"X">>)
    \cup {<<"Y">>, <<"X", "-">>}

\* two CaseStrings are equal exactly when their ASCII-lowercased texts are
CaseStringEqualityLaw ==
    \A a \in ComparedNames : \A b \in ComparedNames :
        CaseStringEq(CaseStringFrom(a), CaseStringFrom(b))
            <=> ToAsciiLowercase(a) = ToAsciiLowercase(b)

\* C9: the field of a parsed record is found under every ASCII casing of its
\* name, with the same value; two CaseStrings are equal exactly when their
\* ASCII-lowercased texts are equal.
C9_CaseInsensitiveLookup ==
    /\ \A i \in DOMAIN out : \A j \in DOMAIN layout :
        PullAt(i, j) /\ WellFormedAt(j) =>
            \A n \in DOMAIN SegmentOf(j).fields :
                LET name == SegmentOf(j).fields[n][1]
                    got  == HeaderGet(out[i].header, CaseStringFrom(name))
                IN  /\ got.some
                    /\ \A a \in Casings(name) :
                         HeaderGet(out[i].header, CaseStringFrom(a)) = got
    /\ CaseStringEqualityLaw

\* C9's case: a record that writes CONTENT-LENGTH, looked up in lower case
C9_Witness ==
    \E i \in DOMAIN out : \E j \in DOMAIN layout :
        /\ PullAt(i, j) /\ WellFormedAt(j)
        /\ out[i].item = "Record"
        /\ \E n \in DOMAIN SegmentOf(j).fields :
                SegmentOf(j).fields[n][1] = NameContentLengthUpper
        /\ HeaderGet(out[i].header, CaseStringFrom(NameContentLengthLower))
             = [some |-> TRUE, val |-> <<"0">>]

\* C10: every header-block line that begins with a space or tab, a line of
\* only spaces or tabs included, continues the preceding header: a newline
\* and the trimmed rest of the line are appended to the pending value, in
\* order; without a pending header the parse fails with
\* Malformed("Invalid header block").
C10_ContinuationLines ==
    \A i \in DOMAIN out : \A j \in DOMAIN layout :
        LET g == SegmentOf(j) IN
        PullAt(i, j) /\ Whole(j) =>
            /\ g.fields # <<>> =>
                 /\ out[i].item = "Record"
                 /\ \A n \in DOMAIN g.fields :
                      LastOfItsName(g.fields, n) =>
                        HeaderGet(out[i].header, CaseStringFrom(g.fields[n][1]))
                          = [some |-> TRUE, val |-> g.fields[n][2]]
            /\ g.why \in {"no_pending", "blank_no_pending"} =>
                 /\ out[i].item = "Err" /\ out[i].tag = "Malformed"
                 /\ out[i].msg = "Invalid header block"

\* C10, for the continuation lines that carry text: the same statement over
\* the well-formed records and the text continuation without pending header
C10_TextContinuationLines ==
    \A i \in DOMAIN out : \A j \in DOMAIN layout :
        LET g == SegmentOf(j) IN
        PullAt(i, j) /\ Whole(j) =>
            /\ g.class = "well_formed" =>
                 /\ out[i].item = "Record"
                 /\ \A n \in DOMAIN g.fields :
                      LastOfItsName(g.fields, n) =>
                        HeaderGet(out[i].header, CaseStringFrom(g.fields[n][1]))
                          = [some |-> TRUE, val |-> g.fields[n][2]]
            /\ g.why = "no_pending" =>
                 /\ out[i].item = "Err" /\ out[i].tag = "Malformed"
                 /\ out[i].msg = "Invalid header block"

\* C11: the header map of a parsed record holds exactly one entry per
\* distinct lowercased field name of the header block, its value the
\* (continuation-extended) value of the last field line of that name; the
\* last field of the block is there, and the Content-Length used is the last
\* one written.
C11_HeaderMapConstruction ==
    \A i \in DOMAIN out : \A j \in DOMAIN layout :
        LET g == SegmentOf(j) IN
        /\ PullAt(i, j) /\ Whole(j)
        /\ g.class = "well_formed" \/ g.why = "two_lengths"
        => /\ out[i].item = "Record"
           /\ DOMAIN out[i].header
                = { [inner |-> ToAsciiLowercase(g.fields[n][1])] :
                    n \in DOMAIN g.fields }
           /\ \A n \in DOMAIN g.fields :
                LastOfItsName(g.fields, n) =>
                    out[i].header[[inner |-> ToAsciiLowercase(g.fields[n][1])]]
                        = g.fields[n][2]
           /\ Len(out[i].content) = g.clen

\* C11's case: a record that writes Content-Length twice is parsed with the
\* second value, after a record whose last field is a repeated, continued one
C11_Witness ==
    \E i \in DOMAIN out : \E j \in DOMAIN layout :
        /\ PullAt(i, j) /\ Whole(j)
        /\ SegmentOf(j).why = "two_lengths"
        /\ out[i].item = "Record"
        /\ Cardinality(DOMAIN out[i].header) = 1
        /\ out[i].content = <<"t", "e">>

\* the item of the pull that was just made
LastPull == out[Len(out)]

\* C12: the flag is cleared exactly when some earlier pull returned an
\* error; it starts set, a pull that yields a record or ends on a clean end
\* of stream leaves it set, it is cleared at most once (by a pull returning
\* an error) and never set again.
C12_LivenessFlag ==
    /\ [](valid_state <=> \A i \in DOMAIN out : out[i].item # "Err")
    /\ [][ /\ ~valid_state => ~valid_state'
           /\ valid_state /\ ~valid_state' => LastPull'.item = "Err"
           /\ valid_state /\ (LastPull'.item = "Record" \/ LastPull'.parsed = "EOF")
                => valid_state' ]_vars

\* C12's case: a record (flag still set), an error that clears the flag, and
\* a pull after it that finds the flag cleared
C12_Witness ==
    /\ Len(out) >= 3
    /\ out[1].item = "Record"
    /\ out[2].item = "Err"
    /\ out[3].item = "None"
    /\ ~valid_state

\* C13 as stated: once a pull ended on a clean end of stream, every later
\* pull yields nothing, whatever the source supplies afterwards.
C13_CleanEndIsFinal ==
    \A i \in DOMAIN out : \A k \in DOMAIN out :
        i < k /\ out[i].parsed = "EOF" => out[k].item = "None"

\* What the code does after a pull that ended on a clean end of stream: the
\* reader is still active, the next pull calls the parser again, and every
\* later pull that finds the source still at its end yields nothing.
C13_CleanEndUntilMoreBytes ==
    \A i \in DOMAIN out : \A k \in DOMAIN out :
        i < k /\ out[i].parsed = "EOF" =>
            /\ k = i + 1 => out[k].called
            /\ out[k].end0 = out[k].pos0 => out[k].item = "None"

\* a pull ends on a clean end of stream, the source then supplies a record,
\* and a pull after that finds the source at its end
C13_SourceGrewAndEndedAgain ==
    \E i \in DOMAIN out : \E k \in DOMAIN out :
        /\ i < k
        /\ out[i].parsed = "EOF"
        /\ out[k].end0 > out[i].end0
        /\ out[k].end0 = out[k].pos0
        /\ out[k].item = "None"

\* the offset in data of the end of the line that starts at offset p: its LF
\* included, or the end of data
FirstLineStop(p) ==
    IF \E e \in (p + 1)..Len(data) : data[e] = "\n"
    THEN CHOOSE e \in (p + 1)..Len(data) :
            data[e] = "\n" /\ \A f \in (p + 1)..(e - 1) : data[f] # "\n"
    ELSE Len(data)

\* the text "WARC/1." of the claim
WarcOneDot == <<"W", "A", "R", "C", "/", "1", ".">>

\* C14: a non-empty first line that read_line returns is accepted as a
\* version line exactly when it starts with "WARC/1." (what is trimmed is
\* only whitespace at its end); any other fails with Malformed("Unknown WARC
\* version") with the read position at the end of that line (no header line
\* was read) and the accumulator as before the call.
C14_VersionCheck ==
    \A i \in DOMAIN out :
        LET p    == out[i].pos0
            e    == FirstLineStop(p)
            line == SubSeq(data, p + 1, e)
            accepted == Len(line) >= 7 /\ SubSeq(line, 1, 7) = WarcOneDot
            unknown  == /\ out[i].item = "Err"
                        /\ out[i].tag = "Malformed"
                        /\ out[i].msg = "Unknown WARC version"
        IN  /\ out[i].called
            /\ p < Len(data)
            /\ \A n \in DOMAIN line : line[n] # BAD
            => /\ accepted <=> ~unknown
               /\ unknown => out[i].pos1 = e /\ out[i].sum1 = out[i].sum0
               /\ out[i].item = "Record" =>
                    /\ StartsWith(line, out[i].version)
                    /\ \A n \in (Len(out[i].version) + 1)..Len(line) :
                          IsWhitespace(line[n])
                    /\ ~IsWhitespace(out[i].version[Len(out[i].version)])

\* C14's case: after a record, a first line that is not a WARC/1. version is
\* refused, the line consumed and the accumulator where it was
C14_Witness ==
    \E i \in DOMAIN out :
        /\ out[i].sum0 > 0
        /\ out[i].msg = "Unknown WARC version"
        /\ out[i].pos1 > out[i].pos0
        /\ out[i].sum1 = out[i].sum0

\* C15: no pull leaves the accumulator lower than it found it: whatever a
\* failing attempt subtracts it had added before, so the unsigned
\* accumulator never goes below its value on entry, and never below 0.
C15_AccumulatorNeverDecreases ==
    /\ sum >= 0
    /\ \A i \in DOMAIN out :
        /\ out[i].sum0 >= 0
        /\ out[i].sum1 >= out[i].sum0
        /\ i > 1 => out[i].sum0 = out[i - 1].sum1

\* C15's case: after a record, an attempt that counted a version line and a
\* header block fails on a short read and subtracts them again
C15_Witness ==
    \E i \in DOMAIN out :
        /\ out[i].tag = "IO"
        /\ out[i].msg = "UnexpectedEof"
        /\ out[i].sum0 > 0
        /\ out[i].pos1 > out[i].pos0
        /\ out[i].sum1 = out[i].sum0

\* C16: a pull on a reader whose flag is cleared returns None without
\* calling the parser: the accumulator, the flag and the read position of
\* the source are as before.
C16_TerminatedPullIsNoOp ==
    [][ ~valid_state =>
          /\ sum' = sum
          /\ pos' = pos
          /\ valid_state' = valid_state
          /\ data' = data
          /\ out' = Append(out, LastPull')
          /\ LastPull'.item = "None"
          /\ ~LastPull'.called ]_vars

\* C16's case: a pull was made on a reader whose flag was cleared, with
\* bytes left in the source that the parser would have taken
C16_Witness ==
    /\ ~valid_state
    /\ out # <<>>
    /\ ~LastPull.called
    /\ pos < Len(data)
    /\ Parse(data, pos, sum, TRUE).pos > pos

\* C17: between pulls the accumulator is at most the number of bytes
\* consumed from the source, and the two are equal as long as no pull has
\* returned an error.
C17_AccumulatorVersusPosition ==
    /\ sum <= pos
    /\ (\A i \in DOMAIN out : out[i].item # "Err") => sum = pos
    /\ \A i \in DOMAIN out :
        /\ out[i].sum1 <= out[i].pos1
        /\ (\A k \in 1..i : out[k].item # "Err") => out[i].sum1 = out[i].pos1

\* C17's case: a record was yielded (accumulator and position equal and
\* positive), then a pull failed and left the accumulator behind the position
C17_Witness ==
    /\ Len(out) >= 2
    /\ out[1].item = "Record"
    /\ out[1].sum1 = out[1].pos1
    /\ out[2].item = "Err"
    /\ 0 < sum
    /\ sum < pos

\* the source ends inside the header block of entry j, a well-formed record:
\* after the prefix of its version line and before the end of its blank line
EndsInHeaderBlock(j) ==
    /\ j = Len(layout)
    /\ SegmentOf(j).class = "well_formed"
    /\ layout[j].len >= Len(VersionPrefix)
    /\ layout[j].len < SegmentOf(j).body

\* C18: over a finite source the pulls come to an end.  Every pull that
\* yields a record consumes at least one byte of the source and none reads
\* beyond its end, a pull at the end of the source yields None, and the pull
\* after an error yields None: a caller that has made MaxPulls pulls has
\* been given a None.  A pull on a source that ends inside a header block
\* returns: the read of 0 bytes is taken as a field line without a colon,
\* the header loop exits with Malformed("Invalid header field"), all of the
\* source consumed.
C18_TerminationOnFiniteInput ==
    /\ \A i \in DOMAIN out :
        /\ out[i].pos1 <= Len(data)
        /\ out[i].item = "Record" => out[i].pos1 > out[i].pos0
        /\ out[i].called /\ out[i].pos0 = Len(data) => out[i].item = "None"
        /\ out[i].item = "Err" /\ i < Len(out) => out[i + 1].item = "None"
    /\ Len(out) = MaxPulls => \E i \in DOMAIN out : out[i].item = "None"
    /\ \A i \in DOMAIN out : \A j \in DOMAIN layout :
        PullAt(i, j) /\ EndsInHeaderBlock(j) =>
            /\ out[i].item = "Err"
            /\ out[i].tag = "Malformed"
            /\ out[i].msg = "Invalid header field"
            /\ out[i].pos1 = Len(data)
            /\ out[i].sum1 = out[i].sum0

\* C18's case: after a record the source ends at a line boundary inside the
\* header block of the next one; the pull returned, and the pull after it
\* returned None
C18_Witness ==
    \E i \in DOMAIN out : \E j \in DOMAIN layout :
        /\ i > 1
        /\ PullAt(i, j) /\ EndsInHeaderBlock(j)
        /\ data[Len(data)] = "\n"
        /\ out[i].item = "Err"
        /\ i < Len(out)
        /\ LastPull.item = "None"

====
